---- MODULE Spec2Model ----
(***************************************************************************)
(* Model of sw.js, the service worker of the agri market site: an install  *)
(* handler that pre-populates one named cache bucket with cache.addAll,    *)
(* and a fetch handler that answers from CacheStorage and otherwise from   *)
(* the network.  The host runtime (lifecycle, CacheStorage, fetch) is      *)
(* modelled as far as the two handlers use it.                             *)
(***************************************************************************)
EXTENDS Integers, Sequences, FiniteSets, TLC

\* sw.js:2
CACHE_NAME == "agrimarket-v1"

\* sw.js:5-10
urlsToCache == <<"/", "/static/css/*", "/static/media/*", "/images/*">>

\* A bucket of the same origin under another name (an earlier version's).
OLD_CACHE == "agrimarket-v0"

\* Number of fetch events the model dispatches.
NumReq == 2

Listed == {urlsToCache[k] : k \in 1..Len(urlsToCache)}

\* Resources of the origin: the listed identifiers and one unlisted path.
URLs == Listed \cup {"/api"}

\* Request descriptors routed through the fetch handler.
ReqURLs == {"/", "/images/*", "/api"}

Methods == {"GET", "POST"}

BucketNames == {OLD_CACHE, CACHE_NAME}

\* Values a promise of the handlers can carry.
Resp(s, u, v) == [type |-> "response", status |-> s, url |-> u, ver |-> v]

undefined == [type |-> "undefined", status |-> 0, url |-> "", ver |-> ""]

NetworkError == [type |-> "error", status |-> 0, url |-> "", ver |-> ""]

Pending == [type |-> "pending", status |-> 0, url |-> "", ver |-> ""]

VARIABLES
    cacheKeys,   \* bucket names of the origin, in creation order
    caches,      \* bucket name -> (URL -> stored response or undefined)
    live,        \* the URLs the deployment serves with a 2xx response
    online,      \* whether the network is reachable
    worker,      \* lifecycle state of this script version
    install,     \* the install handler's promise chain
    req          \* the fetch events, one record per intercepted request

vars == <<cacheKeys, caches, live, online, worker, install, req>>

EmptyBucket == [u \in URLs |-> undefined]

\* Entries an earlier version left behind.
StaleBucket(us) == [u \in URLs |-> IF u \in us THEN Resp(200, u, "v0") ELSE undefined]

IdleReq == [st |-> "idle", method |-> "GET", url |-> "/", respondWith |-> 0,
            lookups |-> 0, fetches |-> 0, found |-> undefined,
            net |-> Pending, outcome |-> "none", response |-> undefined,
            err |-> "none"]

NoInstall == [pc |-> "none", waitUntil |-> FALSE, opens |-> 0, addAlls |-> 0,
              fetched |-> [k \in 1..Len(urlsToCache) |-> Pending],
              tries |-> [k \in 1..Len(urlsToCache) |-> 0],
              err |-> "none", before |-> EmptyBucket]

Init ==
    /\ cacheKeys \in {<< >>, <<OLD_CACHE>>, <<CACHE_NAME>>, <<OLD_CACHE, CACHE_NAME>>}
    /\ caches = [n \in BucketNames |->
                   IF n = OLD_CACHE /\ cacheKeys \in {<<OLD_CACHE>>, <<OLD_CACHE, CACHE_NAME>>}
                   THEN StaleBucket({"/", "/api"})
                   ELSE IF n = CACHE_NAME /\ cacheKeys \in {<<CACHE_NAME>>, <<OLD_CACHE, CACHE_NAME>>}
                   THEN StaleBucket({"/"})
                   ELSE EmptyBucket]
    /\ live \in SUBSET URLs
    /\ online \in BOOLEAN
    /\ worker = "parsed"
    /\ install = NoInstall
    /\ req = [i \in 1..NumReq |-> IdleReq]

HasBucket(n) == \E k \in 1..Len(cacheKeys) : cacheKeys[k] = n

\* fetch(u): a network error when offline, else the server's answer.
Network(u) ==
    IF ~online THEN NetworkError
    ELSE IF u \in live THEN Resp(200, u, "v1") ELSE Resp(404, u, "v1")

\* response.ok
Ok(r) == r.type = "response" /\ r.status >= 200 /\ r.status <= 299

----------------------------------------------------------------------------
\* Install event (sw.js:13-18)

\* The listener: event.waitUntil(caches.open(CACHE_NAME).then(...)).
InstallHandlerWith(w) ==
    /\ install' = [install EXCEPT !.pc = "open", !.waitUntil = w, !.opens = @ + 1]
    /\ UNCHANGED <<cacheKeys, caches>>

\* Variant: the promise is started but not handed to event.waitUntil.
InstallHandlerNoWait == InstallHandlerWith(FALSE)

InstallHandler == InstallHandlerWith(TRUE)

\* The host fires install once on the freshly parsed script.
DispatchInstall ==
    /\ worker = "parsed"
    /\ worker' = "installing"
    /\ InstallHandler
    /\ UNCHANGED <<live, online, req>>

\* .then(cache => cache.addAll(urlsToCache)): one batch, every URL requested.
OpenThen ==
    install' = [install EXCEPT !.pc = "addAll", !.addAlls = @ + 1,
                               !.before = caches[CACHE_NAME]]

\* caches.open(CACHE_NAME) fulfils: the bucket exists afterwards.
OpenResolve ==
    /\ install.pc = "open"
    /\ cacheKeys' = IF HasBucket(CACHE_NAME) THEN cacheKeys ELSE Append(cacheKeys, CACHE_NAME)
    /\ OpenThen
    /\ UNCHANGED <<caches, live, online, worker, req>>

\* caches.open(CACHE_NAME) rejects: the chain rejects, addAll never runs.
OpenReject ==
    /\ install.pc = "open"
    /\ install' = [install EXCEPT !.pc = "rejected", !.err = "open"]
    /\ UNCHANGED <<cacheKeys, caches, live, online, worker, req>>

\* Variant: each response is put into the bucket as it arrives (a loop of
\* cache.add instead of one addAll).
AddAllFetchPut(k) ==
    /\ install.pc = "addAll"
    /\ install.fetched[k] = Pending
    /\ install' = [install EXCEPT !.fetched[k] = Network(urlsToCache[k]),
                                  !.tries[k] = @ + 1]
    /\ caches' = IF Ok(Network(urlsToCache[k]))
                 THEN [caches EXCEPT ![CACHE_NAME][urlsToCache[k]] = Network(urlsToCache[k])]
                 ELSE caches
    /\ UNCHANGED <<cacheKeys, live, online, worker, req>>

\* addAll fetches each listed URL once, in no particular order.
AddAllFetch(k) ==
    /\ install.pc = "addAll"
    /\ install.fetched[k] = Pending
    /\ install' = [install EXCEPT !.fetched[k] = Network(urlsToCache[k]),
                                  !.tries[k] = @ + 1]
    /\ UNCHANGED <<cacheKeys, caches, live, online, worker, req>>

\* Variant: a batch that tolerates individual failures.
SomeOk == /\ \A k \in 1..Len(urlsToCache) : install.fetched[k] # Pending
          /\ \E k \in 1..Len(urlsToCache) : Ok(install.fetched[k])

\* addAll's condition to store: every response arrived and is ok.
AllOk == \A k \in 1..Len(urlsToCache) : Ok(install.fetched[k])

AnyBad == \E k \in 1..Len(urlsToCache) :
              install.fetched[k] # Pending /\ ~Ok(install.fetched[k])

\* Variant: only the first listed URL is stored (cache.add of one URL).
BatchPutFirstOnly == [u \in URLs |->
                        IF u = urlsToCache[1] THEN install.fetched[1]
                        ELSE caches[CACHE_NAME][u]]

\* The batch of puts, applied as one unit.
BatchPut == [u \in URLs |->
               IF \E k \in 1..Len(urlsToCache) : urlsToCache[k] = u
               THEN install.fetched[CHOOSE k \in 1..Len(urlsToCache) : urlsToCache[k] = u]
               ELSE caches[CACHE_NAME][u]]

AddAllResolve ==
    /\ install.pc = "addAll"
    /\ AllOk
    /\ caches' = [caches EXCEPT ![CACHE_NAME] = BatchPut]
    /\ install' = [install EXCEPT !.pc = "resolved"]
    /\ UNCHANGED <<cacheKeys, live, online, worker, req>>

\* Variant: responses that arrived ok are stored before the rejection.
AddAllRejectPartial == [u \in URLs |->
                          IF \E k \in 1..Len(urlsToCache) :
                                 urlsToCache[k] = u /\ Ok(install.fetched[k])
                          THEN Resp(200, u, "v1")
                          ELSE caches[CACHE_NAME][u]]

\* What a rejected addAll leaves in the bucket: nothing new.
AddAllRejectStore == caches[CACHE_NAME]

\* A bad response (or a failed batch write) rejects addAll; fetches still
\* pending are abandoned.
AddAllReject ==
    /\ install.pc = "addAll"
    /\ AnyBad \/ AllOk
    /\ caches' = [caches EXCEPT ![CACHE_NAME] = AddAllRejectStore]
    /\ install' = [install EXCEPT !.pc = "rejected", !.err = "batch"]
    /\ UNCHANGED <<cacheKeys, live, online, worker, req>>

\* waitUntil: the host ends the install phase only when the promise handed
\* to it has settled; a rejection makes the worker redundant.
InstallDone ==
    /\ worker = "installing"
    /\ install.pc # "none"
    /\ install.waitUntil => install.pc \in {"resolved", "rejected"}
    /\ worker' = IF install.waitUntil /\ install.pc = "rejected"
                 THEN "redundant" ELSE "installed"
    /\ UNCHANGED <<cacheKeys, caches, live, online, install, req>>

\* Variant: an activate listener that deletes every bucket not named
\* CACHE_NAME.
ActivateCleanup ==
    /\ worker = "installed"
    /\ worker' = "activated"
    /\ cacheKeys' = SelectSeq(cacheKeys, LAMBDA n : n = CACHE_NAME)
    /\ caches' = [caches EXCEPT ![OLD_CACHE] = EmptyBucket]
    /\ UNCHANGED <<live, online, install, req>>

\* Host default: an installed worker is activated.
Activate ==
    /\ worker = "installed"
    /\ worker' = "activated"
    /\ UNCHANGED <<cacheKeys, caches, live, online, install, req>>

\* The network comes and goes.
ToggleOnline ==
    /\ online' = ~online
    /\ UNCHANGED <<cacheKeys, caches, live, worker, install, req>>

----------------------------------------------------------------------------
\* Fetch event (sw.js:21-26)

\* caches.match(request): the first bucket of the origin, in creation
\* order, that holds an entry for the request; only GET requests match.
RECURSIVE MatchFrom(_, _, _)
MatchFrom(k, m, u) ==
    IF k > Len(cacheKeys) THEN undefined
    ELSE IF m = "GET" /\ caches[cacheKeys[k]][u] # undefined
         THEN caches[cacheKeys[k]][u]
         ELSE MatchFrom(k + 1, m, u)

CachesMatch(m, u) == MatchFrom(1, m, u)

\* Variant: respondWith is called for GET requests only.
FetchHandlerGetOnly(i, m, u) ==
    req' = [req EXCEPT ![i] = [IdleReq EXCEPT !.st = "checking", !.method = m,
                                              !.url = u,
                                              !.respondWith = IF m = "GET" THEN 1 ELSE 0,
                                              !.lookups = 1, !.outcome = "pending"]]

\* The listener: event.respondWith(caches.match(event.request).then(...)).
FetchHandler(i, m, u) ==
    req' = [req EXCEPT ![i] = [IdleReq EXCEPT !.st = "checking", !.method = m,
                                              !.url = u, !.respondWith = 1,
                                              !.lookups = 1, !.outcome = "pending"]]

\* The host routes a request of a controlled page to the active worker.
DispatchFetch(i) ==
    /\ worker = "activated"
    /\ req[i].st = "idle"
    /\ i > 1 => req[i - 1].st # "idle"
    /\ \E m \in Methods, u \in ReqURLs : FetchHandler(i, m, u)
    /\ UNCHANGED <<cacheKeys, caches, live, online, worker, install>>

\* Variant: network first, response => fetch(event.request).
MatchThenNetworkFirst(i, response) ==
    req' = [req EXCEPT ![i].st = "delegating", ![i].fetches = @ + 1]

\* Variant: a stored response is handed out once; a later request for it
\* finds its body used and goes to the network.
MatchThenBodyUsed(i, response) ==
    IF response # undefined /\ \A j \in 1..NumReq : req[j].found # response
    THEN req' = [req EXCEPT ![i].st = "serving", ![i].found = response]
    ELSE req' = [req EXCEPT ![i].st = "delegating", ![i].fetches = @ + 1]

\* Variant: a miss reuses the network response another request for the
\* same resource already obtained (a memo shared between events).
MatchThenCoalesce(i, response) ==
    IF response # undefined
    THEN req' = [req EXCEPT ![i].st = "serving", ![i].found = response]
    ELSE IF \E j \in 1..NumReq : /\ j # i /\ req[j].url = req[i].url
                                 /\ req[j].outcome = "resolved" /\ req[j].fetches = 1
         THEN req' = [req EXCEPT ![i].st = "serving",
                         ![i].found = req[CHOOSE j \in 1..NumReq :
                                             /\ j # i /\ req[j].url = req[i].url
                                             /\ req[j].outcome = "resolved"
                                             /\ req[j].fetches = 1].response]
         ELSE req' = [req EXCEPT ![i].st = "delegating", ![i].fetches = @ + 1]

\* response => response || fetch(event.request)
MatchThen(i, response) ==
    IF response # undefined
    THEN req' = [req EXCEPT ![i].st = "serving", ![i].found = response]
    ELSE req' = [req EXCEPT ![i].st = "delegating", ![i].fetches = @ + 1]

\* caches.match fulfils, with an entry or with undefined.
MatchResolve(i) ==
    /\ req[i].st = "checking"
    /\ MatchThen(i, CachesMatch(req[i].method, req[i].url))
    /\ UNCHANGED <<cacheKeys, caches, live, online, worker, install>>

\* Variant: .catch(() => fetch(event.request)) after the lookup.
MatchCatchFallback(i) ==
    req' = [req EXCEPT ![i].st = "delegating", ![i].fetches = @ + 1,
                       ![i].err = "lookup"]

\* A rejected lookup skips the then-callback: the chain rejects as it is.
MatchCatch(i) ==
    req' = [req EXCEPT ![i].st = "terminal", ![i].outcome = "rejected",
                       ![i].err = "lookup"]

\* caches.match rejects (storage read error).
MatchReject(i) ==
    /\ req[i].st = "checking"
    /\ MatchCatch(i)
    /\ UNCHANGED <<cacheKeys, caches, live, online, worker, install>>

\* Variant: stale-while-revalidate, the entry is served and the request
\* is also sent to the network.
ServeCachedRevalidate(i) ==
    /\ req[i].st = "serving"
    /\ req' = [req EXCEPT ![i].st = "delegating", ![i].fetches = @ + 1,
                          ![i].response = req[i].found]
    /\ UNCHANGED <<cacheKeys, caches, live, online, worker, install>>

\* The callback returned the entry: respondWith's promise fulfils with it.
ServeCached(i) ==
    /\ req[i].st = "serving"
    /\ req' = [req EXCEPT ![i].st = "terminal", ![i].outcome = "resolved",
                          ![i].response = req[i].found]
    /\ UNCHANGED <<cacheKeys, caches, live, online, worker, install>>

\* Variant: the network response is re-wrapped with a 200 status.
FetchFulfilledRewrapped(i, r) ==
    req' = [req EXCEPT ![i].st = "terminal", ![i].outcome = "resolved",
                       ![i].net = r, ![i].response = [r EXCEPT !.status = 200]]

\* The callback returned fetch's promise: its fulfilment value is passed on.
FetchFulfilled(i, r) ==
    req' = [req EXCEPT ![i].st = "terminal", ![i].outcome = "resolved",
                       ![i].net = r, ![i].response = r]

\* Variant: one more fetch after a network error.
FetchRejectedRetry(i) ==
    IF req[i].fetches < 2
    THEN req' = [req EXCEPT ![i].fetches = @ + 1]
    ELSE req' = [req EXCEPT ![i].st = "terminal", ![i].outcome = "rejected",
                            ![i].net = NetworkError, ![i].response = NetworkError,
                            ![i].err = "network"]

\* ... and so is its rejection.
FetchRejected(i) ==
    req' = [req EXCEPT ![i].st = "terminal", ![i].outcome = "rejected",
                       ![i].net = NetworkError, ![i].response = NetworkError,
                       ![i].err = "network"]

\* Variant: the network response of a miss is put into the named bucket.
FetchStorePut(i, r) ==
    /\ cacheKeys' = cacheKeys
    /\ caches' = IF Ok(r) /\ req[i].method = "GET" /\ HasBucket(CACHE_NAME)
                 THEN [caches EXCEPT ![CACHE_NAME][req[i].url] = r]
                 ELSE caches

\* What the handler stores of a network response: nothing, there is no
\* cache.put in the then-callback.
FetchStore(i, r) == UNCHANGED <<cacheKeys, caches>>

\* fetch(event.request) settles.
NetworkSettle(i) ==
    /\ req[i].st = "delegating"
    /\ IF Network(req[i].url) = NetworkError
       THEN FetchRejected(i)
       ELSE FetchFulfilled(i, Network(req[i].url))
    /\ FetchStore(i, Network(req[i].url))
    /\ UNCHANGED <<live, online, worker, install>>

Next ==
    \/ DispatchInstall
    \/ OpenResolve
    \/ OpenReject
    \/ \E k \in 1..Len(urlsToCache) : AddAllFetch(k)
    \/ AddAllResolve
    \/ AddAllReject
    \/ InstallDone
    \/ Activate
    \/ ToggleOnline
    \/ \E i \in 1..NumReq : DispatchFetch(i)
    \/ \E i \in 1..NumReq : MatchResolve(i)
    \/ \E i \in 1..NumReq : MatchReject(i)
    \/ \E i \in 1..NumReq : ServeCached(i)
    \/ \E i \in 1..NumReq : NetworkSettle(i)

Spec == Init /\ [][Next]_vars

\* The host settles every lookup and every network operation it started,
\* and runs the continuation of a settled promise.
FairSpec ==
    /\ Spec
    /\ \A i \in 1..NumReq :
           /\ WF_vars(MatchResolve(i) \/ MatchReject(i))
           /\ WF_vars(ServeCached(i))
           /\ WF_vars(NetworkSettle(i))

\* While this version installs, the pages of the origin are still
\* controlled by the earlier version, whose fetch listener is the same
\* code: its fetch events run against the same CacheStorage.
DispatchFetchDuringInstall(i) ==
    /\ worker = "installing"
    /\ HasBucket(OLD_CACHE)
    /\ req[i].st = "idle"
    /\ i > 1 => req[i - 1].st # "idle"
    /\ \E u \in ReqURLs \cap Listed : FetchHandler(i, "GET", u)
    /\ UNCHANGED <<cacheKeys, caches, live, online, worker, install>>

UpdateNext ==
    \/ Next
    \/ \E i \in 1..NumReq : DispatchFetchDuringInstall(i)

\* An update: the origin already has the earlier version's bucket; the
\* deployment serves every resource, "/" alone, or "/" and "/images/*".
UpdateInit ==
    /\ Init
    /\ HasBucket(OLD_CACHE)
    /\ live \in {URLs, {"/"}, {"/", "/images/*"}}

UpdateSpec == UpdateInit /\ [][UpdateNext]_vars

----------------------------------------------------------------------------
\* Properties

Reqs == 1..NumReq

Settled == install.pc \in {"resolved", "rejected"}

Active == worker \in {"installed", "activated"}

\* Some bucket of the origin holds an entry the request's key matches.
Stored(i) == CachesMatch(req[i].method, req[i].url) # undefined

\* C1: once the install handler's promise has fulfilled, the bucket named
\* CACHE_NAME exists and holds a stored response for every identifier of
\* urlsToCache.
C1_InstallStoresAll ==
    install.pc = "resolved" =>
        /\ HasBucket(CACHE_NAME)
        /\ \A k \in 1..Len(urlsToCache) :
               /\ caches[CACHE_NAME][urlsToCache[k]] # undefined
               /\ caches[CACHE_NAME][urlsToCache[k]] = install.fetched[k]

C1_Witness ==
    /\ install.pc = "resolved"
    /\ worker = "activated"
    /\ cacheKeys = <<CACHE_NAME>>

\* C2: as soon as one listed identifier has failed to fetch, the install
\* can only be reported as failed (never fulfilled, the worker never
\* installed or activated), and the install stores no listed identifier:
\* for each identifier after a failing one (indeed for every one) the
\* bucket holds what it held before the install.
C2_AllOrNothing ==
    \A j \in 1..Len(urlsToCache) :
        (install.fetched[j] # Pending /\ ~Ok(install.fetched[j])) =>
            /\ install.pc # "resolved"
            /\ ~Active
            /\ Settled => (install.pc = "rejected" /\ install.err = "batch")
            /\ \A k \in 1..Len(urlsToCache) :
                   k > j => caches[CACHE_NAME][urlsToCache[k]] = install.before[urlsToCache[k]]
            /\ caches[CACHE_NAME] = install.before

C2_Witness ==
    /\ install.fetched[1] = Resp(200, "/", "v1")
    /\ install.fetched[2] = Resp(404, "/static/css/*", "v1")
    /\ Ok(install.fetched[3])
    /\ install.pc = "rejected"
    /\ worker = "redundant"
    /\ caches[CACHE_NAME] = EmptyBucket

\* C3: the worker is installed or activated only after the handler's
\* promise has fulfilled; while the work is unsettled the worker is still
\* installing, and after a rejection it is never installed or activated.
C3_WaitUntil ==
    /\ Active => install.pc = "resolved"
    /\ install.pc \in {"open", "addAll"} => worker = "installing"
    /\ install.pc = "rejected" => worker \in {"installing", "redundant"}

C3_Witness ==
    /\ worker = "activated"
    /\ install.pc = "resolved"
    /\ install.addAlls = 1

\* C4: a request whose key matches a stored entry never causes a network
\* fetch, online or offline; its lookup, when it fulfils, leads to serving,
\* and the response it is answered with is the stored one.
C4_HitServedFromCache ==
    \A i \in Reqs :
        (req[i].st # "idle" /\ Stored(i)) =>
            /\ req[i].fetches = 0
            /\ req[i].st # "delegating"
            /\ req[i].st = "serving" =>
                   req[i].found = CachesMatch(req[i].method, req[i].url)
            /\ (req[i].st = "terminal" /\ req[i].err = "none") =>
                   /\ req[i].outcome = "resolved"
                   /\ req[i].response = CachesMatch(req[i].method, req[i].url)

C4_Witness ==
    \E i \in Reqs :
        /\ req[i].st = "terminal"
        /\ req[i].outcome = "resolved"
        /\ req[i].url = "/images/*"
        /\ req[i].response = caches[CACHE_NAME]["/images/*"]
        /\ req[i].fetches = 0
        /\ ~online

\* C5: a request with no matching entry is delegated with exactly one
\* network fetch, and what it is answered with is what that fetch returned.
C5_MissPassesThrough ==
    \A i \in Reqs :
        (req[i].st # "idle" /\ ~Stored(i)) =>
            /\ req[i].st # "serving"
            /\ req[i].st = "checking" => req[i].fetches = 0
            /\ req[i].st = "delegating" => req[i].fetches = 1
            /\ (req[i].st = "terminal" /\ req[i].err # "lookup") =>
                   /\ req[i].fetches = 1
                   /\ req[i].net # Pending
                   /\ req[i].response = req[i].net
                   /\ req[i].outcome = "resolved" <=> req[i].net # NetworkError

C5_Witness ==
    \E i \in Reqs :
        /\ req[i].st = "terminal"
        /\ ~Stored(i)
        /\ req[i].outcome = "resolved"
        /\ req[i].response = Resp(404, "/api", "v1")
        /\ req[i].fetches = 1

\* C6 (as claimed): a request is served from cache only if the bucket named
\* CACHE_NAME holds an entry for it.
C6_OnlyNamedBucket ==
    \A i \in Reqs :
        (req[i].st = "serving" \/ (req[i].st = "terminal" /\ req[i].fetches = 0
                                    /\ req[i].outcome = "resolved")) =>
            caches[CACHE_NAME][req[i].url] # undefined

\* C7: respondWith has been called exactly once for every intercepted
\* request, whatever path the request takes.
C7_RespondWithOnce ==
    \A i \in Reqs :
        /\ req[i].st = "idle" => req[i].respondWith = 0
        /\ req[i].st # "idle" => req[i].respondWith = 1

C7_Witness ==
    \E i, j \in Reqs :
        /\ req[i].st = "terminal" /\ req[i].err = "network"
        /\ req[i].method = "POST"
        /\ req[j].st = "terminal" /\ req[j].err = "lookup"
        /\ req[i].respondWith = 1 /\ req[j].respondWith = 1

\* C8: a request whose lookup failed is terminal with a rejected
\* respondWith promise and no network fetch.
C8_LookupFailureUnserved ==
    \A i \in Reqs :
        req[i].err = "lookup" =>
            /\ req[i].st = "terminal"
            /\ req[i].outcome = "rejected"
            /\ req[i].fetches = 0
            /\ req[i].net = Pending

C8_Witness ==
    \E i \in Reqs :
        /\ req[i].err = "lookup"
        /\ req[i].st = "terminal"
        /\ ~Stored(i)
        /\ online

\* C9: every error kind ends in a rejected promise, and no operation is
\* attempted twice for one event: at most one open, one addAll, one fetch
\* per listed URL, one lookup and one network fetch per request.
C9_RejectNoRetry ==
    /\ install.opens <= 1 /\ install.addAlls <= 1
    /\ \A k \in 1..Len(urlsToCache) : install.tries[k] <= 1
    /\ install.err = "open" =>
           install.pc = "rejected" /\ install.addAlls = 0 /\ ~Active
    /\ install.err = "batch" =>
           install.pc = "rejected" /\ install.addAlls = 1 /\ ~Active
    /\ \A i \in Reqs :
           /\ req[i].lookups <= 1 /\ req[i].fetches <= 1
           /\ req[i].err = "lookup" =>
                  req[i].st = "terminal" /\ req[i].outcome = "rejected" /\ req[i].fetches = 0
           /\ req[i].err = "network" =>
                  /\ req[i].st = "terminal" /\ req[i].outcome = "rejected"
                  /\ req[i].response = NetworkError
                  /\ req[i].fetches = 1

C9_Witness ==
    \E i \in Reqs :
        /\ req[i].err = "network"
        /\ req[i].st = "terminal"
        /\ req[i].fetches = 1
        /\ install.opens = 1

\* C10: when "/" is the only listed identifier the deployment serves, the
\* install never succeeds: its promise, once settled, is rejected and the
\* worker is never installed or activated.
C10_WildcardsFailInstall ==
    (Listed \cap live = {"/"}) =>
        /\ install.pc # "resolved"
        /\ ~Active
        /\ Settled => install.pc = "rejected"

C10_Witness ==
    /\ Listed \cap live = {"/"}
    /\ install.fetched[1] = Resp(200, "/", "v1")
    /\ install.err = "batch"
    /\ worker = "redundant"

\* C11: no step of the script removes a bucket or touches a bucket under
\* another name: every bucket keeps its place in the origin's list and the
\* old-named bucket keeps its entries, through install, activation and
\* every fetch.
C11_OldBucketsKept ==
    [][/\ Len(cacheKeys') >= Len(cacheKeys)
       /\ \A k \in 1..Len(cacheKeys) : cacheKeys'[k] = cacheKeys[k]
       /\ caches'[OLD_CACHE] = caches[OLD_CACHE]]_vars

C11_Witness ==
    /\ worker = "activated"
    /\ cacheKeys = <<OLD_CACHE, CACHE_NAME>>
    /\ caches[OLD_CACHE] = StaleBucket({"/", "/api"})
    /\ caches[CACHE_NAME]["/images/*"] = Resp(200, "/images/*", "v1")
    /\ \E i \in Reqs : req[i].st = "terminal"

\* C12: two intercepted requests for the same stored identifier are both
\* answered without a network fetch, and the responses they are answered
\* with are the same stored response.
C12_LookupIdempotent ==
    \A i, j \in Reqs :
        (/\ i # j
         /\ req[i].st # "idle" /\ req[j].st # "idle"
         /\ req[i].method = req[j].method /\ req[i].url = req[j].url
         /\ Stored(i)) =>
            /\ req[i].fetches = 0 /\ req[j].fetches = 0
            /\ (req[i].found # undefined /\ req[j].found # undefined) =>
                   req[i].found = req[j].found
            /\ (req[i].outcome = "resolved" /\ req[j].outcome = "resolved") =>
                   /\ req[i].response = req[j].response
                   /\ req[i].response = CachesMatch(req[i].method, req[i].url)

C12_Witness ==
    \E i, j \in Reqs :
        /\ i # j
        /\ req[i].url = "/images/*" /\ req[j].url = "/images/*"
        /\ req[i].outcome = "resolved" /\ req[j].outcome = "resolved"
        /\ req[i].response = Resp(200, "/images/*", "v1")
        /\ req[j].response = req[i].response
        /\ req[i].fetches = 0 /\ req[j].fetches = 0

\* The steps of one request in the state machine of the fetch handler.
ServePath == {<<"idle", "checking">>, <<"checking", "serving">>,
              <<"checking", "delegating">>, <<"serving", "terminal">>,
              <<"delegating", "terminal">>}

EventuallyTerminal == \A i \in Reqs : (req[i].st # "idle") ~> (req[i].st = "terminal")

\* C13 (as claimed): every request goes checking, then serving or
\* delegating, then terminal, never through both, and reaches terminal.
C13_PathAsClaimed ==
    /\ [][\A i \in Reqs :
              req'[i].st # req[i].st => <<req[i].st, req'[i].st>> \in ServePath]_vars
    /\ [](\A i \in Reqs : ~(req[i].found # undefined /\ req[i].fetches > 0))
    /\ EventuallyTerminal

\* C13 (amended): every request goes checking, then serving or delegating,
\* then terminal, or from checking straight to terminal when the lookup
\* itself fails; it never goes through both serving and delegating, and
\* with lookups and network operations that settle it reaches terminal.
C13_RequestPath ==
    /\ [][\A i \in Reqs :
              req'[i].st # req[i].st =>
                  \/ <<req[i].st, req'[i].st>> \in ServePath
                  \/ /\ req[i].st = "checking" /\ req'[i].st = "terminal"
                     /\ req'[i].err = "lookup" /\ req'[i].outcome = "rejected"]_vars
    /\ [](\A i \in Reqs : ~(req[i].found # undefined /\ req[i].fetches > 0))
    /\ EventuallyTerminal

C13_Witness ==
    \E i, j \in Reqs :
        /\ req[i].st = "terminal" /\ req[i].found # undefined /\ req[i].fetches = 0
        /\ req[j].st = "terminal" /\ req[j].found = undefined /\ req[j].fetches = 1

\* What a request is answered with, from the cache contents and its own
\* network result alone.
Answer(i) ==
    IF Stored(i) THEN CachesMatch(req[i].method, req[i].url) ELSE req[i].net

\* C14: in every interleaving of the in-flight requests, a step of one
\* request leaves every other request as it was, and the response a
\* request ends with is determined by the cache contents and its own
\* network result, as when it is handled alone.
C14_Independent ==
    /\ [][\A i, j \in Reqs : i # j => (req'[i] = req[i] \/ req'[j] = req[j])]_vars
    /\ [](\A i \in Reqs :
              req[i].st = "terminal" =>
                  IF req[i].err = "lookup"
                  THEN req[i].outcome = "rejected"
                  ELSE /\ req[i].response = Answer(i)
                       /\ req[i].outcome = "resolved" <=> Answer(i) # NetworkError)

C14_Witness ==
    /\ req[1].st = "delegating" /\ req[1].url = "/api" /\ req[1].method = "GET"
    /\ req[2].st = "terminal" /\ req[2].url = "/api" /\ req[2].method = "GET"
    /\ req[2].response = Resp(404, "/api", "v1")
    /\ ~online

\* C15: a step of a fetch event changes no bucket and no entry, so the
\* response a miss obtained from the network is not stored: the request
\* still has no stored entry, and another request for the same resource
\* misses too and makes its own network fetch.
C15_FetchWritesNothing ==
    /\ [][req' # req => (caches' = caches /\ cacheKeys' = cacheKeys)]_vars
    /\ [](\A i, j \in Reqs :
              (/\ req[i].st = "terminal" /\ req[i].fetches = 1
               /\ req[j].method = req[i].method /\ req[j].url = req[i].url) =>
                  /\ ~Stored(i)
                  /\ req[j].st # "serving"
                  /\ (req[j].st = "terminal" /\ req[j].err # "lookup") =>
                         req[j].fetches = 1 /\ req[j].found = undefined)

C15_Witness ==
    /\ req[1].st = "terminal" /\ req[1].url = "/api" /\ req[1].method = "GET"
    /\ req[1].response = Resp(200, "/api", "v1") /\ req[1].fetches = 1
    /\ req[2].st = "terminal" /\ req[2].url = "/api" /\ req[2].method = "GET"
    /\ req[2].fetches = 1 /\ req[2].net # Pending
    /\ caches[CACHE_NAME]["/api"] = undefined
    /\ HasBucket(CACHE_NAME)

\* The listed identifiers whose entry in the named bucket is a response
\* this install fetched.
Added == {u \in Listed : /\ caches[CACHE_NAME][u] # undefined
                         /\ caches[CACHE_NAME][u].ver = "v1"}

\* C16: with fetch events running during the install, the named bucket
\* holds at every point none of the entries the install is adding or all
\* of them (and all only once addAll has fulfilled); after a failed
\* install it holds none; and no request is ever handed an entry of an
\* unfinished batch.
C16_NoPartialBucket ==
    /\ Added = {} \/ Added = Listed
    /\ Added = Listed => install.pc = "resolved"
    /\ install.pc \in {"none", "open", "addAll", "rejected"} => Added = {}
    /\ \A i \in Reqs :
           (req[i].found # undefined /\ req[i].found.ver = "v1") =>
               install.pc = "resolved"

C16_Witness ==
    /\ worker = "installing"
    /\ install.pc = "addAll"
    /\ install.fetched[4] = Resp(200, "/images/*", "v1")
    /\ install.fetched[1] = Pending
    /\ \E i \in Reqs : /\ req[i].url = "/images/*"
                       /\ req[i].st = "terminal"
                       /\ req[i].fetches = 1
    /\ caches[CACHE_NAME]["/images/*"] = undefined

====
